---------------------------- MODULE Spec2Model ----------------------------
(***************************************************************************)
(* typeorm-zod: the WeakMap rule store (metadata-store.ts), the two        *)
(* registering decorators (ZodProperty, ZodColumn) and the schema          *)
(* generator (schema-generator.ts: getAllMetadata, filterMetadataForSchema,*)
(* createZodFromEntityForVariant, createEntitySchemas).                    *)
(*                                                                         *)
(* store holds the contents of the list stored under each constructor and  *)
(* last the latest call with its outcome.  arrays tells which references   *)
(* are to one and the same array: it is the set of groups of holders (the  *)
(* keys of the WeakMap and the variable of the calling code) that share an *)
(* array; held is the array the calling code holds in its variable.        *)
(* history keeps the two latest calls of createEntitySchemas with the      *)
(* store they saw; threads is the state of the threads that add rules.     *)
(* modules is the state of the loaded copies of the store module and the    *)
(* stores they created; watch is the state of the command line tool's       *)
(* watch mode.                                                             *)
(*                                                                         *)
(* A Zod validator is modelled by its base type and the wrappers applied   *)
(* to it, innermost first: z.string().optional().nullable() is             *)
(* [base |-> "string", wraps |-> <<"optional", "nullable">>].              *)
(***************************************************************************)
EXTENDS Naturals, Sequences, FiniteSets

VARIABLES store, last, arrays, held, history, threads, modules, watch

vars == <<store, last, arrays, held, history, threads, modules, watch>>

----------------------------------------------------------------------------
(* Bounds of the model *)

MaxRules == 3

MaxGenRules == 2

MaxHeapRules == 3

MaxRegenRules == 2

MaxAdds == 2

MaxRootRules == 2

MaxCoerceRules == 1

----------------------------------------------------------------------------
(* Types of the host object model and their prototype chain *)

NULL == "null"

UserClasses == {"A", "B", "C", "U"}

\* the objects above the user-defined classes, and the two root constructors
RootKeys == {"Function.prototype", "Object.prototype", "Object", "Function"}

Keys == UserClasses \cup RootKeys

\* class A {}; class B extends A {}; class C extends B {}; class U {}
GetPrototypeOf ==
    [k \in Keys |->
        CASE k = "C" -> "B"
          [] k = "B" -> "A"
          [] k = "A" -> "Function.prototype"
          [] k = "U" -> "Function.prototype"
          [] k = "Object" -> "Function.prototype"
          [] k = "Function" -> "Function.prototype"
          [] k = "Function.prototype" -> "Object.prototype"
          [] OTHER -> NULL]

SchemaVariant == {"create", "update", "patch", "query", "full"}

----------------------------------------------------------------------------
(* Validators *)

Z(base, wraps) == [base |-> base, wraps |-> wraps]

NotASchema == Z("not-a-schema", <<>>)

\* instanceof z.ZodOptional / z.ZodNullable / z.ZodDefault: the outermost wrapper
Outer(z) == IF Len(z.wraps) = 0 THEN "none" ELSE z.wraps[Len(z.wraps)]

Wrap(z, w) == Z(z.base, Append(z.wraps, w))

isValidZodSchema(value) == value.base # "not-a-schema"

----------------------------------------------------------------------------
(* metadata-store.ts *)

getMetadata(st, constructorFunc) == st[constructorFunc]

\* mutant: one list shared by every type instead of one list per type
setMetadata_Shared(st, constructorFunc, metadata) ==
    [k \in DOMAIN st |-> metadata]

setMetadata(st, constructorFunc, metadata) ==
    [st EXCEPT ![constructorFunc] = metadata]

\* mutant: the new list holds the new item only
addMetadata_Overwrite(st, constructorFunc, item) ==
    setMetadata(st, constructorFunc, <<item>>)

addMetadata(st, constructorFunc, item) ==
    LET existing == getMetadata(st, constructorFunc)
        updated  == Append(existing, item)
    IN  setMetadata(st, constructorFunc, updated)

\* mutant: the duplicate check also looks at the lists of the ancestors
RECURSIVE hasPropertyMetadata_Inherited(_, _, _)
hasPropertyMetadata_Inherited(st, constructorFunc, propertyKey) ==
    \/ \E i \in DOMAIN st[constructorFunc] :
          st[constructorFunc][i].propertyKey = propertyKey
    \/ /\ GetPrototypeOf[constructorFunc] # NULL
       /\ hasPropertyMetadata_Inherited(st, GetPrototypeOf[constructorFunc],
                                        propertyKey)

\* mutant: the duplicate check never fires
hasPropertyMetadata_Never(st, constructorFunc, propertyKey) == FALSE

hasPropertyMetadata(st, constructorFunc, propertyKey) ==
    LET metadata == getMetadata(st, constructorFunc)
    IN  \E i \in DOMAIN metadata : metadata[i].propertyKey = propertyKey

(* Which array each of these operations hands out or keeps.  A holder is a *)
(* key of the WeakMap or the variable of the calling code.                 *)

Caller == "caller"

\* the holders that share holder h's array; empty when h references no array
GroupOf(ar, h) == UNION {g \in ar : h \in g}

\* holder h lets go of its array
Detach(ar, h) == {g \ {h} : g \in ar} \ {{}}

\* holder h references a newly allocated array
Fresh(ar, h) == Detach(ar, h) \cup {{h}}

\* holder h references the array that holder to references
Attach(ar, h, to) ==
    LET d == Detach(ar, h)
    IN  (d \ {GroupOf(d, to)}) \cup {GroupOf(d, to) \cup {h}}

\* metadataStore.get(constructorFunc) || []: the stored array itself when the
\* key has an entry, a new empty array otherwise
getMetadataRef(ar, constructorFunc, h) ==
    IF GroupOf(ar, constructorFunc) # {} THEN Attach(ar, h, constructorFunc)
    ELSE Fresh(ar, h)

\* metadataStore.set(constructorFunc, metadata): the entry is the array passed
setMetadataRef(ar, constructorFunc, h) == Attach(ar, constructorFunc, h)

\* mutant: existing.push(item) on the stored array
addMetadataRef_InPlace(ar, constructorFunc) ==
    IF GroupOf(ar, constructorFunc) # {} THEN ar ELSE Fresh(ar, constructorFunc)

\* const updated = [...existing, item]; setMetadata(constructorFunc, updated)
addMetadataRef(ar, constructorFunc) == Fresh(ar, constructorFunc)

----------------------------------------------------------------------------
(* Values of the optional members of a rule *)

NoSkip == [defined |-> FALSE, variants |-> {}]

Skip(vs) == [defined |-> TRUE, variants |-> vs]

NoColumnOptions == [defined |-> FALSE, nullable |-> FALSE, hasDefault |-> FALSE]

ColumnOptions(n, d) == [defined |-> TRUE, nullable |-> n, hasDefault |-> d]

NoError == [kind |-> "none"]

DuplicateError(decorator, propertyKey, entity) ==
    [kind |-> "Duplicate", decorator |-> decorator,
     propertyKey |-> propertyKey, entity |-> entity]

InvalidSchemaError(propertyKey, entity) ==
    [kind |-> "InvalidSchema", propertyKey |-> propertyKey, entity |-> entity]

Registered(op, target, propertyKey, threw) ==
    [op |-> op, target |-> target, propertyKey |-> propertyKey, threw |-> threw]

----------------------------------------------------------------------------
(* decorators/zod-property.ts *)

\* legacy syntax: @ZodProperty(schema); object syntax: @ZodProperty({schema, skip})
Legacy(schema) == [isObjectSyntax |-> FALSE, schema |-> schema, skip |-> NoSkip]

Obj(schema, skip) == [isObjectSyntax |-> TRUE, schema |-> schema, skip |-> skip]

ZodProperty(target, propertyKey, schemaOrOptions) ==
    LET constructorFunc == target IN
    \/ /\ hasPropertyMetadata(store, constructorFunc, propertyKey)
       /\ last' = Registered("ZodProperty", target, propertyKey,
                      DuplicateError("@ZodProperty", propertyKey, constructorFunc))
       /\ UNCHANGED <<store, arrays, held>>
    \/ /\ ~hasPropertyMetadata(store, constructorFunc, propertyKey)
       /\ ~isValidZodSchema(schemaOrOptions.schema)
       /\ last' = Registered("ZodProperty", target, propertyKey,
                      InvalidSchemaError(propertyKey, constructorFunc))
       /\ UNCHANGED <<store, arrays, held>>
    \/ /\ ~hasPropertyMetadata(store, constructorFunc, propertyKey)
       /\ isValidZodSchema(schemaOrOptions.schema)
       /\ store' = addMetadata(store, constructorFunc,
                      [propertyKey   |-> propertyKey,
                       zodSchema     |-> schemaOrOptions.schema,
                       columnOptions |-> NoColumnOptions,
                       skip          |-> IF schemaOrOptions.isObjectSyntax
                                         THEN schemaOrOptions.skip ELSE NoSkip])
       /\ arrays' = addMetadataRef(arrays, constructorFunc)
       /\ last' = Registered("ZodProperty", target, propertyKey, NoError)
       /\ UNCHANGED held

(* decorators/zod-column.ts *)

ZodColumn(target, propertyKey, columnOptions, zodSchema) ==
    LET constructorFunc == target IN
    \/ /\ hasPropertyMetadata(store, constructorFunc, propertyKey)
       /\ last' = Registered("ZodColumn", target, propertyKey,
                      DuplicateError("@ZodColumn", propertyKey, constructorFunc))
       /\ UNCHANGED <<store, arrays, held>>
    \/ /\ ~hasPropertyMetadata(store, constructorFunc, propertyKey)
       /\ store' = addMetadata(store, constructorFunc,
                      [propertyKey   |-> propertyKey,
                       zodSchema     |-> zodSchema,
                       columnOptions |-> columnOptions,
                       skip          |-> NoSkip])
       /\ arrays' = addMetadataRef(arrays, constructorFunc)
       /\ last' = Registered("ZodColumn", target, propertyKey, NoError)
       /\ UNCHANGED held

----------------------------------------------------------------------------
(* schema-generator.ts *)

AllFields == {"id", "createdAt", "updatedAt", "deletedAt", "title"}

Includes(seq, x) == \E i \in DOMAIN seq : seq[i] = x

\* mutant: the unseen rules of a list are put in front of the rules collected so far
forEachUnseen_InFront(allMetadata, metadata) ==
    LET Unseen(item) == \A i \in DOMAIN allMetadata :
                            allMetadata[i].propertyKey # item.propertyKey
    IN  SelectSeq(metadata, Unseen) \o allMetadata

\* mutant: the walk appends every rule, seen or not
forEachUnseen_NoSeenCheck(allMetadata, metadata) == allMetadata \o metadata

\* the body of metadata.forEach in getAllMetadata; seenProperties always holds
\* exactly the property keys of allMetadata
RECURSIVE forEachUnseen(_, _)
forEachUnseen(allMetadata, metadata) ==
    IF metadata = <<>> THEN allMetadata
    ELSE LET item == Head(metadata)
             seen == \E i \in DOMAIN allMetadata :
                        allMetadata[i].propertyKey = item.propertyKey
         IN  forEachUnseen(
                 IF ~seen
                 THEN Append(allMetadata,
                          [propertyKey   |-> item.propertyKey,
                           zodSchema     |-> item.zodSchema,
                           columnOptions |-> item.columnOptions,
                           skip          |-> item.skip])
                 ELSE allMetadata,
                 Tail(metadata))

RECURSIVE walkPrototypeChain(_, _, _)
walkPrototypeChain(st, currentClass, allMetadata) ==
    LET metadata == getMetadata(st, currentClass)
        merged   == forEachUnseen(allMetadata, metadata)
        parent   == GetPrototypeOf[currentClass]
    IN  IF parent = NULL \/ parent = "Object" \/ parent = "Function"
        THEN merged
        ELSE walkPrototypeChain(st, parent, merged)

getAllMetadata(st, entityClass) == walkPrototypeChain(st, entityClass, <<>>)

\* mutant: only the global omission list is applied, the skip sets are ignored
filterMetadataForSchema_OmitOnly(metadata, schemaVariant, globalOmitFields) ==
    LET Keep(item) == ~Includes(globalOmitFields, item.propertyKey)
    IN  SelectSeq(metadata, Keep)

filterMetadataForSchema(metadata, schemaVariant, globalOmitFields) ==
    LET Keep(item) ==
            IF item.skip.defined /\ schemaVariant \in item.skip.variants
            THEN FALSE
            ELSE ~Includes(globalOmitFields, item.propertyKey)
    IN  SelectSeq(metadata, Keep)

\* options.transforms[propertyKey](schema), for a transform that does not throw
ApplyTransform(kind, schema) ==
    CASE kind = "optional" -> Wrap(schema, "optional")
      [] kind = "default"  -> Wrap(schema, "default")
      [] OTHER             -> schema

\* mutant: the hints are applied whatever the declared validator is
FinalSchema_NoGuards(item, options) ==
    LET t  == options.transforms[item.propertyKey]
        s0 == IF t # "absent" THEN ApplyTransform(t, item.zodSchema)
              ELSE item.zodSchema
        s1 == IF item.columnOptions.defined /\ item.columnOptions.nullable
              THEN Wrap(s0, "nullable") ELSE s0
    IN  IF item.columnOptions.defined /\ item.columnOptions.hasDefault
        THEN Wrap(s1, "default") ELSE s1

\* the body of filteredMetadata.forEach in createZodFromEntityForVariant
FinalSchema(item, options) ==
    LET zodSchema == item.zodSchema
        t  == options.transforms[item.propertyKey]
        s0 == IF t # "absent" THEN ApplyTransform(t, zodSchema) ELSE zodSchema
        isOptionalSchema == Outer(zodSchema) = "optional"
        isNullableSchema == Outer(zodSchema) = "nullable"
        s1 == IF item.columnOptions.defined /\ item.columnOptions.nullable
                 /\ ~isOptionalSchema /\ ~isNullableSchema
              THEN Wrap(s0, "nullable") ELSE s0
        s2 == IF item.columnOptions.defined /\ item.columnOptions.hasDefault
                 /\ Outer(zodSchema) # "default"
              THEN Wrap(s1, "default") ELSE s1
    IN  s2

\* mutant: an error thrown by a transform is caught and the declared validator used
transformThrows_Caught(options, propertyKey) == FALSE

\* options.transforms[propertyKey](finalSchema) throws
transformThrows(options, propertyKey) == options.transforms[propertyKey] = "throws"

NoMetadataError(entity) == [kind |-> "NoMetadata", entity |-> entity]

TransformError(propertyKey) == [kind |-> "TransformThrew", propertyKey |-> propertyKey]

\* mutant: the variant is refused when no field is left after filtering
noMetadataFound_AfterFilter(allMetadata, filteredMetadata) == Len(filteredMetadata) = 0

\* if (allMetadata.length === 0) throw
noMetadataFound(allMetadata, filteredMetadata) == Len(allMetadata) = 0

createZodFromEntityForVariant(st, entityClass, schemaVariant, options, globalOmitFields) ==
    LET allMetadata == getAllMetadata(st, entityClass)
        filteredMetadata ==
            filterMetadataForSchema(allMetadata, schemaVariant, globalOmitFields)
        throwing == {i \in DOMAIN filteredMetadata :
                        transformThrows(options, filteredMetadata[i].propertyKey)}
        first == CHOOSE i \in throwing : \A j \in throwing : i <= j
    IN  IF noMetadataFound(allMetadata, filteredMetadata)
        THEN [threw |-> NoMetadataError(entityClass), shape |-> <<>>]
        ELSE IF throwing # {}
        THEN [threw |-> TransformError(filteredMetadata[first].propertyKey),
              shape |-> <<>>]
        ELSE [threw |-> NoError,
              shape |-> [i \in DOMAIN filteredMetadata |->
                            [propertyKey |-> filteredMetadata[i].propertyKey,
                             schema |-> FinalSchema(filteredMetadata[i], options)]]]

\* mutant: partial() leaves the fields as they are
partial_Identity(shape) == shape

\* z.object(shape).partial(): every field is wrapped in ZodOptional
partial(shape) ==
    [i \in DOMAIN shape |->
        [propertyKey |-> shape[i].propertyKey,
         schema |-> Wrap(shape[i].schema, "optional")]]

\* ZodObject.required unwraps every outer ZodOptional of a masked field
RECURSIVE deoptional(_)
deoptional(schema) ==
    IF Outer(schema) = "optional"
    THEN deoptional(Z(schema.base, SubSeq(schema.wraps, 1, Len(schema.wraps) - 1)))
    ELSE schema

\* mutant: required() leaves the masked field optional
required_Identity(shape, mask) == shape

\* .required({ id: true }): keys of the shape outside the mask are kept as they
\* are, and a mask key the shape does not have is ignored
required(shape, mask) ==
    [i \in DOMAIN shape |->
        IF shape[i].propertyKey \in mask
        THEN [propertyKey |-> shape[i].propertyKey,
              schema |-> deoptional(shape[i].schema)]
        ELSE shape[i]]

defaultCreateOmit == <<"id", "createdAt", "updatedAt", "deletedAt">>

\* mutant: a caller's omitFromCreate replaces the default list
createOmitFields_Replace(options) ==
    IF options.omitFromCreate.defined THEN options.omitFromCreate.names
    ELSE defaultCreateOmit

createOmitFields(options) ==
    defaultCreateOmit \o
        (IF options.omitFromCreate.defined THEN options.omitFromCreate.names ELSE <<>>)

\* mutant: the update variant omits what the create variant omits as well
updateOmitFields_WithCreate(options) ==
    createOmitFields(options) \o
        (IF options.omitFromUpdate.defined THEN options.omitFromUpdate.names ELSE <<>>)

updateOmitFields(options) ==
    IF options.omitFromUpdate.defined THEN options.omitFromUpdate.names ELSE <<>>

createEntitySchemas(st, entityClass, options) ==
    LET full   == createZodFromEntityForVariant(st, entityClass, "full", options, <<>>)
        create == createZodFromEntityForVariant(st, entityClass, "create", options,
                      createOmitFields(options))
        update == createZodFromEntityForVariant(st, entityClass, "update", options,
                      updateOmitFields(options))
        patch  == createZodFromEntityForVariant(st, entityClass, "patch", options, <<>>)
        query  == createZodFromEntityForVariant(st, entityClass, "query", options, <<>>)
        order  == <<full, create, update, patch, query>>
        failed == {i \in DOMAIN order : order[i].threw.kind # "none"}
        first  == CHOOSE i \in failed : \A j \in failed : i <= j
    IN  IF failed # {}
        THEN [threw |-> order[first].threw]
        ELSE [threw   |-> NoError,
              schemas |-> [full   |-> full.shape,
                           create |-> create.shape,
                           update |-> required(partial(update.shape), {"id"}),
                           patch  |-> partial(patch.shape),
                           query  |-> partial(query.shape)]]

\* the full variant alone
createZodFromEntity(st, entityClass, options) ==
    createZodFromEntityForVariant(st, entityClass, "full", options, <<>>)

\* the member v of what createEntitySchemas returned, or the error it raised
memberOf(r, v) ==
    IF r.threw.kind # "none" THEN [threw |-> r.threw, shape |-> <<>>]
    ELSE [threw |-> NoError, shape |-> r.schemas[v]]

\* createEntitySchemas(entityClass, options).create
createCreateSchema(st, entityClass, options) ==
    memberOf(createEntitySchemas(st, entityClass, options), "create")

\* createEntitySchemas(entityClass, options).update
createUpdateSchema(st, entityClass, options) ==
    memberOf(createEntitySchemas(st, entityClass, options), "update")

\* mutant: the merged list is written back as the type's own list
Generate_MergeInPlace(entityClass, options) ==
    LET r == createEntitySchemas(store, entityClass, options)
        merged == getAllMetadata(store, entityClass)
    IN  /\ last' = [op |-> "createEntitySchemas", entityClass |-> entityClass,
                    options |-> options, result |-> r]
        /\ store' = [store EXCEPT ![entityClass] = merged]
        /\ arrays' = IF merged # <<>> THEN Fresh(arrays, entityClass) ELSE arrays
        /\ UNCHANGED held

\* mutant: the result of an earlier call for the same type and options is returned
Generate_Memoized(entityClass, options) ==
    LET hit == {i \in DOMAIN history :
                   /\ history[i].entityClass = entityClass
                   /\ history[i].options = options}
        r == IF hit # {} THEN history[CHOOSE i \in hit : \A j \in hit : i <= j].result
             ELSE createEntitySchemas(store, entityClass, options)
    IN  /\ last' = [op |-> "createEntitySchemas", entityClass |-> entityClass,
                    options |-> options, result |-> r]
        /\ UNCHANGED <<store, arrays, held>>

\* createEntitySchemas(entityClass, options) called by the application
Generate(entityClass, options) ==
    LET r == createEntitySchemas(store, entityClass, options) IN
    /\ last' = [op |-> "createEntitySchemas", entityClass |-> entityClass,
                options |-> options, result |-> r]
    /\ UNCHANGED <<store, arrays, held>>

\* the three single-variant entry points called by the application
GenerateFull(entityClass, options) ==
    /\ last' = [op |-> "createZodFromEntity", entityClass |-> entityClass,
                options |-> options,
                result |-> createZodFromEntity(store, entityClass, options)]
    /\ UNCHANGED <<store, arrays, held>>

GenerateCreate(entityClass, options) ==
    /\ last' = [op |-> "createCreateSchema", entityClass |-> entityClass,
                options |-> options,
                result |-> createCreateSchema(store, entityClass, options)]
    /\ UNCHANGED <<store, arrays, held>>

GenerateUpdate(entityClass, options) ==
    /\ last' = [op |-> "createUpdateSchema", entityClass |-> entityClass,
                options |-> options,
                result |-> createUpdateSchema(store, entityClass, options)]
    /\ UNCHANGED <<store, arrays, held>>

----------------------------------------------------------------------------
(* Code that uses the exported store functions itself, with one variable   *)
(* list that holds an array of rules.                                      *)

NoArray == [has |-> FALSE, items |-> <<>>]

Array(items) == [has |-> TRUE, items |-> items]

\* list = getMetadata(constructorFunc)
AppGet(constructorFunc) ==
    /\ held' = Array(getMetadata(store, constructorFunc))
    /\ arrays' = getMetadataRef(arrays, constructorFunc, Caller)
    /\ last' = [op |-> "getMetadata", target |-> constructorFunc]
    /\ UNCHANGED store

\* list = [...]
AppLiteral(items) ==
    /\ held' = Array(items)
    /\ arrays' = Fresh(arrays, Caller)
    /\ last' = [op |-> "literal"]
    /\ UNCHANGED store

\* list.push(item): every holder of the array sees the new element
AppPush(item) ==
    /\ held.has
    /\ held' = Array(Append(held.items, item))
    /\ store' = [k \in DOMAIN store |->
                    IF k \in GroupOf(arrays, Caller) THEN Append(store[k], item)
                    ELSE store[k]]
    /\ last' = [op |-> "push", item |-> item]
    /\ UNCHANGED arrays

\* setMetadata(constructorFunc, list)
AppSet(constructorFunc) ==
    /\ held.has
    /\ store' = setMetadata(store, constructorFunc, held.items)
    /\ arrays' = setMetadataRef(arrays, constructorFunc, Caller)
    /\ last' = [op |-> "setMetadata", target |-> constructorFunc]
    /\ UNCHANGED held

\* addMetadata(constructorFunc, item)
AppAdd(constructorFunc, item) ==
    /\ store' = addMetadata(store, constructorFunc, item)
    /\ arrays' = addMetadataRef(arrays, constructorFunc)
    /\ last' = [op |-> "addMetadata", target |-> constructorFunc, item |-> item,
                shared |-> Caller \in GroupOf(arrays, constructorFunc)]
    /\ UNCHANGED held

----------------------------------------------------------------------------
(* The record of the calls of createEntitySchemas: the latest call first,  *)
(* each with the store contents it was made on.                            *)

Remember(h, st, call) ==
    LET entry == [entityClass |-> call.entityClass, options |-> call.options,
                  result |-> call.result, seen |-> st]
    IN  IF h = <<>> THEN <<entry>> ELSE <<entry, h[1]>>

----------------------------------------------------------------------------
(* Threads that call addMetadata.  A thread runs addMetadata in one step,  *)
(* or runs its getMetadata and its setMetadata as two steps between which  *)
(* the other thread may run.                                               *)

Threads == {"t1", "t2"}

\* the rule a thread registers: each thread registers a field of its own
ThreadItem(t) ==
    [propertyKey   |-> IF t = "t1" THEN "id" ELSE "title",
     zodSchema     |-> Z("string", <<>>),
     columnOptions |-> NoColumnOptions,
     skip          |-> NoSkip]

\* a thread outside addMetadata; added lists the adds it has completed
Idle(added, split) ==
    [pc |-> "idle", target |-> NULL, existing |-> <<>>, added |-> added,
     split |-> split]

\* addMetadata(constructorFunc, item) run to completion
ThreadAdd(t, constructorFunc) ==
    /\ threads[t].pc = "idle"
    /\ AppAdd(constructorFunc, ThreadItem(t))
    /\ threads' = [threads EXCEPT ![t] =
                      Idle(Append(threads[t].added, constructorFunc),
                           threads[t].split)]

\* const existing = getMetadata(constructorFunc)
ThreadGet(t, constructorFunc) ==
    /\ threads[t].pc = "idle"
    /\ threads' = [threads EXCEPT ![t] =
                      [pc |-> "read", target |-> constructorFunc,
                       existing |-> getMetadata(store, constructorFunc),
                       added |-> threads[t].added, split |-> TRUE]]
    /\ last' = [op |-> "getMetadata", target |-> constructorFunc]
    /\ UNCHANGED <<store, arrays, held>>

\* const updated = [...existing, item]; setMetadata(constructorFunc, updated)
ThreadSet(t) ==
    /\ threads[t].pc = "read"
    /\ store' = setMetadata(store, threads[t].target,
                            Append(threads[t].existing, ThreadItem(t)))
    /\ arrays' = addMetadataRef(arrays, threads[t].target)
    /\ threads' = [threads EXCEPT ![t] =
                      Idle(Append(threads[t].added, threads[t].target), TRUE)]
    /\ last' = [op |-> "setMetadata", target |-> threads[t].target]
    /\ UNCHANGED held

----------------------------------------------------------------------------
(* schema.safeParse(input) of a generated variant.  An input is the set of *)
(* keys it holds, each with a value its field's validator accepts.         *)

\* whether a validator accepts a missing (undefined) value
RECURSIVE AcceptsUndefined(_)
AcceptsUndefined(schema) ==
    CASE Outer(schema) = "optional" -> TRUE
      [] Outer(schema) = "default"  -> TRUE
      [] Outer(schema) = "nullable" ->
            AcceptsUndefined(Z(schema.base, SubSeq(schema.wraps, 1, Len(schema.wraps) - 1)))
      [] OTHER -> FALSE

\* mutant: z.object(shape).strict(), a key outside the shape is an issue
Issues_Strict(shape, input) ==
    {shape[i].propertyKey : i \in {j \in DOMAIN shape :
        shape[j].propertyKey \notin input /\ ~AcceptsUndefined(shape[j].schema)}}
    \cup (input \ {shape[i].propertyKey : i \in DOMAIN shape})

\* the paths of the issues safeParse reports
Issues(shape, input) ==
    {shape[i].propertyKey : i \in {j \in DOMAIN shape :
        shape[j].propertyKey \notin input /\ ~AcceptsUndefined(shape[j].schema)}}

safeParse(shape, input) ==
    [success |-> Issues(shape, input) = {}, issues |-> Issues(shape, input)]

\* whether a missing value comes out of the validator as its default
YieldsDefault(schema) ==
    \E i \in DOMAIN schema.wraps :
        /\ schema.wraps[i] = "default"
        /\ \A j \in (i + 1)..Len(schema.wraps) : schema.wraps[j] = "nullable"

\* the keys of schema.parse(input): keys outside the shape are stripped and a
\* missing key is set only when its validator yields a default
parse(shape, input) ==
    {shape[i].propertyKey : i \in {j \in DOMAIN shape :
        shape[j].propertyKey \in input \/ YieldsDefault(shape[j].schema)}}


----------------------------------------------------------------------------
(* Inputs *)

NoList == [defined |-> FALSE, names |-> <<>>]

List(names) == [defined |-> TRUE, names |-> names]

NoTransforms == [f \in AllFields |-> "absent"]

Transform(propertyKey, kind) == [NoTransforms EXCEPT ![propertyKey] = kind]

Options(omitFromCreate, omitFromUpdate, transforms) ==
    [omitFromCreate |-> omitFromCreate, omitFromUpdate |-> omitFromUpdate,
     transforms |-> transforms]

DefaultOptions == Options(NoList, NoList, NoTransforms)

\* the store and the inheritance walk: four classes, two fields
StoreFields == {"id", "title"}

StorePropertyInputs ==
    {Obj(Z("date", <<>>), Skip({"update"})),
     Obj(NotASchema, NoSkip)}

StoreColumnInputs ==
    {[columnOptions |-> ColumnOptions(TRUE, FALSE), zodSchema |-> Z("number", <<>>)]}

StoreOptions == {DefaultOptions}

\* the variants: a class and its subclass, the five conventional fields
GenClasses == {"A", "B"}

\* the decorators of the test entities (TestUserEntity, TestEntityWithSkip), and
\* one field skipped for full
GenPropertyInputs ==
    {[propertyKey |-> "id", schemaOrOptions |-> Legacy(Z("uuid", <<>>))],
     [propertyKey |-> "id",
      schemaOrOptions |-> Obj(Z("uuid", <<>>), Skip({"create", "update"}))],
     [propertyKey |-> "createdAt",
      schemaOrOptions |-> Obj(Z("date", <<>>), Skip({"create"}))],
     [propertyKey |-> "updatedAt", schemaOrOptions |-> Legacy(Z("date", <<>>))],
     [propertyKey |-> "deletedAt",
      schemaOrOptions |-> Obj(Z("date", <<"nullable">>), Skip({"create", "update"}))],
     [propertyKey |-> "title", schemaOrOptions |-> Legacy(Z("string", <<>>))],
     [propertyKey |-> "title", schemaOrOptions |-> Obj(Z("string", <<>>), Skip({}))],
     [propertyKey |-> "title",
      schemaOrOptions |-> Obj(Z("number", <<>>), Skip({"create", "update", "patch"}))],
     [propertyKey |-> "title",
      schemaOrOptions |-> Obj(Z("string", <<"optional">>), Skip({"query"}))],
     [propertyKey |-> "title",
      schemaOrOptions |-> Obj(Z("string", <<>>), Skip({"full"}))]}

GenColumnInputs ==
    {[propertyKey |-> "id", columnOptions |-> ColumnOptions(FALSE, TRUE),
      zodSchema |-> Z("uuid", <<>>)],
     [propertyKey |-> "title", columnOptions |-> ColumnOptions(TRUE, FALSE),
      zodSchema |-> Z("string", <<>>)]}

GenOptions ==
    {DefaultOptions,
     Options(List(<<"title">>), NoList, NoTransforms),
     Options(NoList, List(<<"id">>), NoTransforms),
     Options(NoList, List(<<"title">>), NoTransforms),
     Options(NoList, NoList, Transform("id", "optional")),
     Options(NoList, NoList, Transform("title", "throws"))}

RECURSIVE SumLen(_, _)
SumLen(st, ks) ==
    IF ks = {} THEN 0
    ELSE LET k == CHOOSE x \in ks : TRUE IN Len(st[k]) + SumLen(st, ks \ {k})

TotalRules == SumLen(store, Keys)

\* the bound stops the store from growing; a refused duplicate is always possible
CanRegister(max, target, propertyKey) ==
    TotalRules < max \/ hasPropertyMetadata(store, target, propertyKey)

----------------------------------------------------------------------------
(* Loading the store module: metadata-store.ts, lines 13-25 *)

\* the copies of the store module one process can load
Copies == {"m1", "m2"}

\* globalThis has no value under the store key
NoStore == 0

EmptyStore == [k \in Keys |-> <<>>]

\* stores are the WeakMaps created so far, globalStore is the one under the
\* global key, metadataStore is the one each loaded copy is bound to; added
\* are all the rules registered through any copy, via the copies that
\* registered one, and kept tells that a load found registered rules
NoModules ==
    [globalStore |-> NoStore, stores |-> <<>>,
     metadataStore |-> [copy \in Copies |-> NoStore],
     added |-> EmptyStore, via |-> {}, kept |-> FALSE]

\* a module load that always installs a new WeakMap under the global key
ensureStore_AlwaysNew(m) ==
    [m EXCEPT !.stores = Append(@, EmptyStore), !.globalStore = Len(m.stores) + 1]

\* if (!globalStore[METADATA_STORE_KEY]) globalStore[METADATA_STORE_KEY] = new WeakMap()
ensureStore(m) ==
    IF m.globalStore = NoStore
    THEN [m EXCEPT !.stores = Append(@, EmptyStore), !.globalStore = Len(m.stores) + 1]
    ELSE m

\* const metadataStore = globalStore[METADATA_STORE_KEY]
bindStore(m, copy) ==
    [m EXCEPT !.metadataStore[copy] = m.globalStore,
              !.kept = @ \/ (\E k \in Keys : m.added[k] # <<>>)]

\* the module body runs: a first load of a copy, or a load of it again
LoadModule(copy) ==
    /\ modules' = bindStore(ensureStore(modules), copy)
    /\ last' = [op |-> "load", copy |-> copy]
    /\ UNCHANGED <<store, arrays, held, history, threads, watch>>

Loaded(copy) == modules.metadataStore[copy] # NoStore

StoreOf(copy) == modules.stores[modules.metadataStore[copy]]

\* addMetadata of one loaded copy
AddVia(copy, constructorFunc, item) ==
    /\ Loaded(copy)
    /\ modules' = [modules EXCEPT
            !.stores[modules.metadataStore[copy]] = addMetadata(@, constructorFunc, item),
            !.added[constructorFunc] = Append(@, item),
            !.via = @ \cup {copy}]
    /\ last' = [op |-> "addMetadataVia", copy |-> copy, target |-> constructorFunc,
                item |-> item]
    /\ UNCHANGED <<store, arrays, held, history, threads, watch>>

\* getMetadata of one loaded copy
GetVia(copy, constructorFunc) ==
    /\ Loaded(copy)
    /\ last' = [op |-> "getMetadataVia", copy |-> copy, target |-> constructorFunc,
                result |-> getMetadata(StoreOf(copy), constructorFunc)]
    /\ UNCHANGED <<store, arrays, held, history, threads, modules, watch>>

\* hasPropertyMetadata of one loaded copy
HasVia(copy, constructorFunc, propertyKey) ==
    /\ Loaded(copy)
    /\ last' = [op |-> "hasPropertyMetadataVia", copy |-> copy,
                target |-> constructorFunc, propertyKey |-> propertyKey,
                result |-> hasPropertyMetadata(StoreOf(copy), constructorFunc, propertyKey)]
    /\ UNCHANGED <<store, arrays, held, history, threads, modules, watch>>

\* createEntitySchemas of a generator that imports one loaded copy
GenerateVia(copy, entityClass) ==
    /\ Loaded(copy)
    /\ last' = [op |-> "createEntitySchemasVia", copy |-> copy,
                entityClass |-> entityClass,
                result |-> createEntitySchemas(StoreOf(copy), entityClass, DefaultOptions)]
    /\ UNCHANGED <<store, arrays, held, history, threads, modules, watch>>

----------------------------------------------------------------------------
(* Watch mode of the command line tool: cli.ts *)

\* the delay of the debounce, in steps of 100 ms
Wait == 3

\* regenerations that are in progress at the same time
MaxJobs == 2

\* let timeout: NodeJS.Timeout | undefined
NoTimeout == [pending |-> FALSE, left |-> 0]

Timeout(n) == [pending |-> TRUE, left |-> n]

\* a call of generate that has not returned: the initial one of main or one
\* started by the debounced function; at is the await it is waiting in, and
\* overtaken tells that a generation started after it has written the output
Job(kind, at) == [kind |-> kind, at |-> at, overtaken |-> FALSE]

\* main has registered the watcher and waits in the initial generate; alive
\* is the process; quiet counts the time since the latest file event, no
\* further than Wait; burst tells whether no, one or more file events have
\* not been followed by a run of the debounced function
WatchStart ==
    [alive |-> TRUE, timeout |-> NoTimeout, quiet |-> Wait, burst |-> "none",
     jobs |-> <<Job("initial", "entities")>>]

\* a debounced call that leaves a pending timer running
debounced_KeepPending(timeout) == IF timeout.pending THEN timeout ELSE Timeout(Wait)

\* clearTimeout(timeout); timeout = setTimeout(later, wait)
debounced(timeout) == Timeout(Wait)

\* chokidar reports a change of a watched file: the handler calls debouncedGenerate
FileEvent ==
    /\ watch.alive
    /\ watch' = [watch EXCEPT !.timeout = debounced(watch.timeout),
                              !.quiet = 0,
                              !.burst = IF @ = "none" THEN "one" ELSE "many"]
    /\ last' = [op |-> "event"]
    /\ UNCHANGED <<store, arrays, held, history, threads, modules>>

\* 100 ms pass; a timer that is due runs before more time passes
Tick ==
    /\ watch.alive
    /\ ~(watch.timeout.pending /\ watch.timeout.left = 0)
    /\ watch' = [watch EXCEPT
            !.timeout = IF @.pending THEN Timeout(@.left - 1) ELSE @,
            !.quiet = IF @ < Wait THEN @ + 1 ELSE @]
    /\ last' = [op |-> "tick"]
    /\ UNCHANGED <<store, arrays, held, history, threads, modules>>

\* the timer runs later: timeout = undefined, and the debounced function
\* starts with currentConfig = await loadConfig(...)
Later ==
    /\ watch.alive
    /\ watch.timeout.pending /\ watch.timeout.left = 0
    /\ Len(watch.jobs) < MaxJobs
    /\ watch' = [watch EXCEPT !.timeout = NoTimeout, !.burst = "none",
                              !.jobs = Append(@, Job("regeneration", "loadConfig"))]
    /\ last' = [op |-> "later", quiet |-> watch.quiet, burst |-> watch.burst,
                running |-> Len(watch.jobs)]
    /\ UNCHANGED <<store, arrays, held, history, threads, modules>>

Without(jobs, i) == [j \in 1..(Len(jobs) - 1) |-> IF j < i THEN jobs[j] ELSE jobs[j + 1]]

\* the awaits of one generation in their order
NextAwait(at) == IF at = "loadConfig" THEN "entities" ELSE "writeFile"

\* an await of job i resolves and the job runs to its next await: loadConfig
\* returns a valid configuration and generate starts, or the entity classes
\* are loaded and the content is generated
Proceed(i) ==
    /\ watch.alive
    /\ i \in DOMAIN watch.jobs
    /\ watch.jobs[i].at # "writeFile"
    /\ watch' = [watch EXCEPT !.jobs[i].at = NextAwait(@)]
    /\ last' = [op |-> "await", kind |-> watch.jobs[i].kind, at |-> watch'.jobs[i].at]
    /\ UNCHANGED <<store, arrays, held, history, threads, modules>>

\* writeFile of job i resolves: the output file holds what job i generated
\* and generate returns
WriteFile(i) ==
    /\ watch.alive
    /\ i \in DOMAIN watch.jobs
    /\ watch.jobs[i].at = "writeFile"
    /\ watch' = [watch EXCEPT !.jobs = Without(
            [j \in DOMAIN @ |-> IF j < i THEN [@[j] EXCEPT !.overtaken = TRUE] ELSE @[j]], i)]
    /\ last' = [op |-> "writeFile", kind |-> watch.jobs[i].kind,
                running |-> Len(watch.jobs) - 1, stale |-> watch.jobs[i].overtaken]
    /\ UNCHANGED <<store, arrays, held, history, threads, modules>>

\* generate of job i returns without writing: no entity class was found, or
\* loading the entity files was rejected
ReturnEarly(i) ==
    /\ watch.alive
    /\ i \in DOMAIN watch.jobs
    /\ watch.jobs[i].at = "entities"
    /\ watch' = [watch EXCEPT !.jobs = Without(@, i)]
    /\ last' = [op |-> "return", kind |-> watch.jobs[i].kind]
    /\ UNCHANGED <<store, arrays, held, history, threads, modules>>

\* process.exit(1): the configuration of job i cannot be loaded or is
\* invalid, or its output cannot be written
Exit(i) ==
    /\ watch.alive
    /\ i \in DOMAIN watch.jobs
    /\ watch.jobs[i].at \in {"loadConfig", "writeFile"}
    /\ watch' = [watch EXCEPT !.alive = FALSE]
    /\ last' = [op |-> "exit", kind |-> watch.jobs[i].kind]
    /\ UNCHANGED <<store, arrays, held, history, threads, modules>>

----------------------------------------------------------------------------
(* Specifications *)

Init ==
    /\ store = [k \in Keys |-> <<>>]
    /\ last = [op |-> "none"]
    /\ arrays = {}
    /\ held = NoArray
    /\ history = <<>>
    /\ threads = [t \in Threads |-> Idle(<<>>, FALSE)]
    /\ modules = NoModules
    /\ watch = WatchStart

Next ==
    \/ \E target \in UserClasses, propertyKey \in StoreFields,
          schemaOrOptions \in StorePropertyInputs :
            /\ CanRegister(MaxRules, target, propertyKey)
            /\ ZodProperty(target, propertyKey, schemaOrOptions)
            /\ UNCHANGED <<history, threads, modules, watch>>
    \/ \E target \in UserClasses, propertyKey \in StoreFields,
          in \in StoreColumnInputs :
            /\ CanRegister(MaxRules, target, propertyKey)
            /\ ZodColumn(target, propertyKey, in.columnOptions, in.zodSchema)
            /\ UNCHANGED <<history, threads, modules, watch>>
    \/ \E entityClass \in UserClasses, options \in StoreOptions :
            /\ Generate(entityClass, options)
            /\ UNCHANGED <<history, threads, modules, watch>>

Spec == Init /\ [][Next]_vars

NextGen ==
    \/ \E target \in GenClasses, in \in GenPropertyInputs :
            /\ CanRegister(MaxGenRules, target, in.propertyKey)
            /\ ZodProperty(target, in.propertyKey, in.schemaOrOptions)
            /\ UNCHANGED <<history, threads, modules, watch>>
    \/ \E target \in GenClasses, in \in GenColumnInputs :
            /\ CanRegister(MaxGenRules, target, in.propertyKey)
            /\ ZodColumn(target, in.propertyKey, in.columnOptions, in.zodSchema)
            /\ UNCHANGED <<history, threads, modules, watch>>
    \/ \E entityClass \in GenClasses, options \in GenOptions :
            /\ Generate(entityClass, options)
            /\ UNCHANGED <<history, threads, modules, watch>>

SpecGen == Init /\ [][NextGen]_vars

\* the four generation entry points over a parent, its child and few rules
ApiOptions == {DefaultOptions, Options(NoList, NoList, Transform("title", "throws"))}

NextApi ==
    \/ \E target \in GenClasses, propertyKey \in StoreFields,
          schemaOrOptions \in StorePropertyInputs :
            /\ CanRegister(MaxRules, target, propertyKey)
            /\ ZodProperty(target, propertyKey, schemaOrOptions)
            /\ UNCHANGED <<history, threads, modules, watch>>
    \/ \E target \in GenClasses, propertyKey \in StoreFields,
          in \in StoreColumnInputs :
            /\ CanRegister(MaxRules, target, propertyKey)
            /\ ZodColumn(target, propertyKey, in.columnOptions, in.zodSchema)
            /\ UNCHANGED <<history, threads, modules, watch>>
    \/ \E entityClass \in GenClasses, options \in ApiOptions :
            /\ Generate(entityClass, options)
            /\ UNCHANGED <<history, threads, modules, watch>>
    \/ \E entityClass \in GenClasses, options \in ApiOptions :
            /\ GenerateFull(entityClass, options)
            /\ UNCHANGED <<history, threads, modules, watch>>
    \/ \E entityClass \in GenClasses, options \in ApiOptions :
            /\ GenerateCreate(entityClass, options)
            /\ UNCHANGED <<history, threads, modules, watch>>
    \/ \E entityClass \in GenClasses, options \in ApiOptions :
            /\ GenerateUpdate(entityClass, options)
            /\ UNCHANGED <<history, threads, modules, watch>>

SpecApi == Init /\ [][NextApi]_vars

\* the store functions used directly, on a parent and its child
HeapRules ==
    {[propertyKey |-> "id", zodSchema |-> Z("number", <<>>),
      columnOptions |-> NoColumnOptions, skip |-> NoSkip],
     [propertyKey |-> "id", zodSchema |-> Z("uuid", <<>>),
      columnOptions |-> NoColumnOptions, skip |-> Skip({"patch"})],
     [propertyKey |-> "title", zodSchema |-> Z("string", <<>>),
      columnOptions |-> NoColumnOptions, skip |-> Skip({"update"})]}

HeapLiterals == {<<>>} \cup {<<r>> : r \in HeapRules}

HeapSize == TotalRules + Len(held.items)

NextHeap ==
    \/ \E constructorFunc \in GenClasses :
            /\ AppGet(constructorFunc)
            /\ UNCHANGED <<history, threads, modules, watch>>
    \/ \E items \in HeapLiterals :
            /\ TotalRules + Len(items) <= MaxHeapRules
            /\ AppLiteral(items)
            /\ UNCHANGED <<history, threads, modules, watch>>
    \/ \E item \in HeapRules :
            /\ HeapSize + Cardinality(GroupOf(arrays, Caller)) <= MaxHeapRules
            /\ AppPush(item)
            /\ UNCHANGED <<history, threads, modules, watch>>
    \/ \E constructorFunc \in GenClasses :
            /\ HeapSize + Len(held.items) <= MaxHeapRules + Len(store[constructorFunc])
            /\ AppSet(constructorFunc)
            /\ UNCHANGED <<history, threads, modules, watch>>
    \/ \E constructorFunc \in GenClasses, item \in HeapRules :
            /\ HeapSize < MaxHeapRules
            /\ AppAdd(constructorFunc, item)
            /\ UNCHANGED <<history, threads, modules, watch>>
    \/ \E entityClass \in GenClasses :
            /\ Generate(entityClass, DefaultOptions)
            /\ UNCHANGED <<history, threads, modules, watch>>

SpecHeap == Init /\ [][NextHeap]_vars

\* the child's schemas generated again and again while rules are registered on
\* it and on its parent and a list is replaced
RegenLiteral ==
    <<[propertyKey |-> "title", zodSchema |-> Z("string", <<>>),
       columnOptions |-> NoColumnOptions, skip |-> Skip({"update"})]>>

NextRegen ==
    \/ \E target \in GenClasses, propertyKey \in StoreFields,
          in \in StoreColumnInputs :
            /\ CanRegister(MaxRegenRules, target, propertyKey)
            /\ ZodColumn(target, propertyKey, in.columnOptions, in.zodSchema)
            /\ UNCHANGED <<history, threads, modules, watch>>
    \/  /\ AppLiteral(RegenLiteral)
        /\ UNCHANGED <<history, threads, modules, watch>>
    \/ \E constructorFunc \in GenClasses :
            /\ TotalRules + Len(held.items) <= MaxRegenRules + Len(store[constructorFunc])
            /\ AppSet(constructorFunc)
            /\ UNCHANGED <<history, threads, modules, watch>>
    \/  /\ Generate("B", DefaultOptions)
        /\ history' = Remember(history, store, last')
        /\ UNCHANGED <<threads, modules, watch>>

SpecRegen == Init /\ [][NextRegen]_vars

\* rules stored under the objects above a user-defined class
RootRules ==
    {[propertyKey |-> "id", zodSchema |-> Z("number", <<>>),
      columnOptions |-> NoColumnOptions, skip |-> NoSkip],
     [propertyKey |-> "title", zodSchema |-> Z("string", <<>>),
      columnOptions |-> NoColumnOptions, skip |-> NoSkip]}

NextRoot ==
    \/ \E constructorFunc \in RootKeys \cup {"A"}, item \in RootRules :
            /\ TotalRules < MaxRootRules
            /\ AppAdd(constructorFunc, item)
            /\ UNCHANGED <<history, threads, modules, watch>>
    \/ \E entityClass \in GenClasses :
            /\ Generate(entityClass, DefaultOptions)
            /\ UNCHANGED <<history, threads, modules, watch>>

SpecRoot == Init /\ [][NextRoot]_vars

\* one field declared with every kind of validator and of column options, and
\* generated with and without a transform
CoerceSchemas ==
    {Z("string", <<>>), Z("string", <<"optional">>), Z("string", <<"nullable">>),
     Z("string", <<"default">>), Z("string", <<"default", "optional">>)}

CoerceOptions ==
    {DefaultOptions,
     Options(NoList, NoList, Transform("title", "optional")),
     Options(NoList, NoList, Transform("title", "default"))}

NextCoerce ==
    \/ \E target \in GenClasses, zodSchema \in CoerceSchemas :
            /\ CanRegister(MaxCoerceRules, target, "title")
            /\ ZodProperty(target, "title", Legacy(zodSchema))
            /\ UNCHANGED <<history, threads, modules, watch>>
    \/ \E target \in GenClasses, zodSchema \in CoerceSchemas, n, d \in BOOLEAN :
            /\ CanRegister(MaxCoerceRules, target, "title")
            /\ ZodColumn(target, "title", ColumnOptions(n, d), zodSchema)
            /\ UNCHANGED <<history, threads, modules, watch>>
    \/ \E entityClass \in GenClasses, options \in CoerceOptions :
            /\ Generate(entityClass, options)
            /\ UNCHANGED <<history, threads, modules, watch>>

SpecCoerce == Init /\ [][NextCoerce]_vars

\* two threads that add rules, each add in one step or as its get and its set
NextThreads ==
    \/ \E t \in Threads, constructorFunc \in GenClasses :
            /\ Len(threads[t].added) < MaxAdds
            /\ ThreadAdd(t, constructorFunc)
            /\ UNCHANGED <<history, modules, watch>>
    \/ \E t \in Threads, constructorFunc \in GenClasses :
            /\ Len(threads[t].added) < MaxAdds
            /\ ThreadGet(t, constructorFunc)
            /\ UNCHANGED <<history, modules, watch>>
    \/ \E t \in Threads :
            /\ ThreadSet(t)
            /\ UNCHANGED <<history, modules, watch>>

SpecThreads == Init /\ [][NextThreads]_vars

\* the rules registered through the copies of the store module
MaxLoadRules == 2

NextLoad ==
    \/ \E copy \in Copies :
            LoadModule(copy)
    \/ \E copy \in Copies, constructorFunc \in GenClasses, item \in RootRules :
            /\ SumLen(modules.added, Keys) < MaxLoadRules
            /\ AddVia(copy, constructorFunc, item)
    \/ \E copy \in Copies, constructorFunc \in GenClasses :
            GetVia(copy, constructorFunc)
    \/ \E copy \in Copies, constructorFunc \in GenClasses, propertyKey \in StoreFields :
            HasVia(copy, constructorFunc, propertyKey)
    \/ \E copy \in Copies, entityClass \in GenClasses :
            GenerateVia(copy, entityClass)

SpecLoad == Init /\ [][NextLoad]_vars

JobStep == \E i \in 1..MaxJobs : Proceed(i) \/ WriteFile(i) \/ ReturnEarly(i) \/ Exit(i)

NextWatch ==
    \/ FileEvent
    \/ Tick
    \/ Later
    \/ \E i \in 1..MaxJobs : Proceed(i)
    \/ \E i \in 1..MaxJobs : WriteFile(i)
    \/ \E i \in 1..MaxJobs : ReturnEarly(i)
    \/ \E i \in 1..MaxJobs : Exit(i)

\* time passes, a due timer runs and an awaited operation settles
SpecWatch ==
    /\ Init
    /\ [][NextWatch]_vars
    /\ WF_vars(Tick)
    /\ WF_vars(Later)
    /\ WF_vars(JobStep)

----------------------------------------------------------------------------
(* Vocabulary of the properties, stated on the stored lists themselves *)

RegOps == {"ZodProperty", "ZodColumn"}

IsRegistration(l) == l.op \in RegOps

OwnKeys(st, c) == {st[c][i].propertyKey : i \in DOMAIN st[c]}

\* the first rule for key k in the own list of class c
OwnRule(st, c, k) ==
    LET hits == {i \in DOMAIN st[c] : st[c][i].propertyKey = k}
    IN  st[c][CHOOSE i \in hits : \A j \in hits : i <= j]

\* the user-defined ancestors of a class, nearest first
RECURSIVE AncestorsOf(_)
AncestorsOf(c) ==
    LET p == GetPrototypeOf[c]
    IN  IF p \in UserClasses THEN <<p>> \o AncestorsOf(p) ELSE <<>>

ChainOf(c) == <<c>> \o AncestorsOf(c)

Related(a, b) == Includes(ChainOf(a), b) \/ Includes(ChainOf(b), a)

ChainKeys(st, c) == UNION {OwnKeys(st, ChainOf(c)[i]) : i \in DOMAIN ChainOf(c)}

\* the rule for key k of the nearest class of c's chain that declares k
ChainRule(st, c, k) ==
    LET chain == ChainOf(c)
        decl  == {i \in DOMAIN chain : k \in OwnKeys(st, chain[i])}
    IN  OwnRule(st, chain[CHOOSE i \in decl : \A j \in decl : i <= j], k)

KeysOf(seq) == {seq[i].propertyKey : i \in DOMAIN seq}

----------------------------------------------------------------------------
(* C1: rule lists are isolated by type identity.  A registration of field  *)
(* x on type A leaves the stored list of every type B unrelated to A as it *)
(* was, fails as a duplicate only when A's own list already holds x        *)
(* (never because B holds x), and afterwards every rule that resolving A   *)
(* or B yields is a rule of that type's own chain.                         *)
C1_Isolation ==
    [][IsRegistration(last') =>
          LET a == last'.target
              x == last'.propertyKey
          IN  \A b \in UserClasses :
                  ~Related(a, b) =>
                      /\ store'[b] = store[b]
                      /\ (last'.threw.kind = "Duplicate") = (x \in OwnKeys(store, a))
                      /\ \A t \in {a, b} :
                            LET merged == getAllMetadata(store', t)
                            IN  \A i \in DOMAIN merged :
                                   /\ merged[i].propertyKey \in ChainKeys(store', t)
                                   /\ merged[i] =
                                        ChainRule(store', t, merged[i].propertyKey)
      ]_vars

\* "id" has just been registered on U while the unrelated A holds a different "id" rule
C1_Witness ==
    /\ IsRegistration(last)
    /\ last.target = "U"
    /\ last.propertyKey = "id"
    /\ last.threw.kind = "none"
    /\ "id" \in OwnKeys(store, "A")
    /\ OwnRule(store, "A", "id") # OwnRule(store, "U", "id")
    /\ KeysOf(getAllMetadata(store, "A")) = {"id"}

----------------------------------------------------------------------------
(* C2: a second registration of a field name that the same type's own list *)
(* already holds, through ZodProperty or ZodColumn, raises the duplicate   *)
(* error naming the decorator, the field and the type, and leaves the      *)
(* store as it was for every type.                                         *)
C2_DuplicateRejected ==
    [][(IsRegistration(last') /\ last'.propertyKey \in OwnKeys(store, last'.target)) =>
          /\ last'.threw = [kind        |-> "Duplicate",
                            decorator   |-> IF last'.op = "ZodProperty"
                                            THEN "@ZodProperty" ELSE "@ZodColumn",
                            propertyKey |-> last'.propertyKey,
                            entity      |-> last'.target]
          /\ store' = store
      ]_vars

\* @ZodColumn was refused on a field first registered with @ZodProperty, while
\* the type holds another field and another type holds rules too
C2_Witness ==
    /\ last.op = "ZodColumn"
    /\ last.threw.kind = "Duplicate"
    /\ ~OwnRule(store, last.target, last.propertyKey).columnOptions.defined
    /\ Len(store[last.target]) = 2
    /\ \E c \in UserClasses \ {last.target} : store[c] # <<>>

----------------------------------------------------------------------------
(* C3: for a class c and an ancestor d of c (at any distance), every field *)
(* declared on d appears exactly once in c's merged rule set; it carries   *)
(* d's rule when neither c nor an ancestor nearer than d declares it, and  *)
(* c's rule when c declares it too.                                        *)
C3_InheritOverride ==
    \A c \in UserClasses :
        LET merged == getAllMetadata(store, c)
            chain  == ChainOf(c)
        IN  \A j \in 2..Len(chain) :
                \A k \in OwnKeys(store, chain[j]) :
                    LET hits == {i \in DOMAIN merged : merged[i].propertyKey = k}
                        rule == merged[CHOOSE i \in hits : TRUE]
                    IN  /\ Cardinality(hits) = 1
                        /\ (\A m \in 1..(j - 1) : k \notin OwnKeys(store, chain[m]))
                              => rule = OwnRule(store, chain[j], k)
                        /\ k \in OwnKeys(store, c)
                              => rule = OwnRule(store, c, k)

\* C overrides "id" of its grandparent A with another rule and inherits "title"
C3_Witness ==
    /\ store["B"] = <<>>
    /\ OwnKeys(store, "A") = {"id", "title"}
    /\ OwnKeys(store, "C") = {"id"}
    /\ OwnRule(store, "C", "id") # OwnRule(store, "A", "id")
    /\ getAllMetadata(store, "C") =
          <<OwnRule(store, "C", "id"), OwnRule(store, "A", "title")>>

----------------------------------------------------------------------------
(* Vocabulary of the properties of a generated Schema Collection *)

IsGeneration(l) == l.op = "createEntitySchemas"

Returned(l) == IsGeneration(l) /\ l.result.threw.kind = "none"

SkipOf(rule) == IF rule.skip.defined THEN rule.skip.variants ELSE {}

NamesOf(list) == IF list.defined THEN {list.names[i] : i \in DOMAIN list.names} ELSE {}

ConventionalFields == {"id", "createdAt", "updatedAt", "deletedAt"}

\* the global omission list used for a variant
OmittedFor(variant, options) ==
    CASE variant = "create" -> ConventionalFields \cup NamesOf(options.omitFromCreate)
      [] variant = "update" -> NamesOf(options.omitFromUpdate)
      [] OTHER -> {}

SchemaOf(shape, k) == shape[CHOOSE i \in DOMAIN shape : shape[i].propertyKey = k].schema

\* the merged rule set holds "id", not skipped for update and not in omitFromUpdate
IdInUpdateDerivation(merged, options) ==
    /\ "id" \notin NamesOf(options.omitFromUpdate)
    /\ \E i \in DOMAIN merged :
          merged[i].propertyKey = "id" /\ "update" \notin SkipOf(merged[i])

\* a transform that throws is supplied for a field of the merged rule set that
\* some variant includes
ThrowingTransformApplies(merged, options) ==
    \E i \in DOMAIN merged :
        /\ options.transforms[merged[i].propertyKey] = "throws"
        /\ \E v \in SchemaVariant :
              /\ v \notin SkipOf(merged[i])
              /\ merged[i].propertyKey \notin OmittedFor(v, options)

\* a missing value is supplied by a default, or by an optional wrapper, that
\* lies under nullable wrappers only
SuppliesMissing(schema) ==
    \E i \in DOMAIN schema.wraps :
        /\ schema.wraps[i] \in {"default", "optional"}
        /\ \A j \in (i + 1)..Len(schema.wraps) : schema.wraps[j] = "nullable"

InputsWithoutId == SUBSET (AllFields \ {"id"})

----------------------------------------------------------------------------
----------------------------------------------------------------------------
(* C5: the create variant of a returned Schema Collection holds none of    *)
(* id, createdAt, updatedAt, deletedAt, whatever the skip sets of those    *)
(* fields and whatever omitFromCreate is.                                  *)
C5_CreateOmitsConventional ==
    Returned(last) =>
        KeysOf(last.result.schemas.create) \cap ConventionalFields = {}

\* "id" is registered without a skip set, the caller passes its own omitFromCreate
C5_Witness ==
    /\ Returned(last)
    /\ last.options.omitFromCreate.defined
    /\ \E i \in DOMAIN getAllMetadata(store, last.entityClass) :
          /\ getAllMetadata(store, last.entityClass)[i].propertyKey = "id"
          /\ ~getAllMetadata(store, last.entityClass)[i].skip.defined
    /\ "id" \in KeysOf(last.result.schemas.full)
    /\ "id" \notin KeysOf(last.result.schemas.create)

----------------------------------------------------------------------------
(* C6 as stated: the update variant always holds id as a required field    *)
(* and every other field as optional; an input without id is rejected with *)
(* an error on id and an input holding only a valid id is accepted.        *)
C6_Original ==
    Returned(last) =>
        LET update == last.result.schemas.update
        IN  /\ "id" \in KeysOf(update)
            /\ \A i \in DOMAIN update :
                  IF update[i].propertyKey = "id"
                  THEN ~AcceptsUndefined(update[i].schema)
                  ELSE Outer(update[i].schema) = "optional"
            /\ \A input \in InputsWithoutId :
                  /\ ~safeParse(update, input).success
                  /\ "id" \in safeParse(update, input).issues
            /\ safeParse(update, {"id"}).success

(* C6 as amended: the update variant holds id exactly when id is in the    *)
(* update derivation, and every other field as optional.  When it holds    *)
(* id, id has no outer optional wrapper, an input holding only a valid id  *)
(* is accepted, and an input without id is rejected with an error on id    *)
(* unless id's validator supplies the missing value itself (a default, or  *)
(* an optional wrapper under a nullable one).                              *)
C6_UpdateShape ==
    Returned(last) =>
        LET update == last.result.schemas.update
            merged == getAllMetadata(store, last.entityClass)
            hasId  == IdInUpdateDerivation(merged, last.options)
        IN  /\ ("id" \in KeysOf(update)) = hasId
            /\ \A i \in DOMAIN update :
                  update[i].propertyKey # "id" => Outer(update[i].schema) = "optional"
            /\ hasId =>
                  /\ Outer(SchemaOf(update, "id")) # "optional"
                  /\ safeParse(update, {"id"}).success
                  /\ \A input \in InputsWithoutId :
                        (/\ ~safeParse(update, input).success
                         /\ "id" \in safeParse(update, input).issues)
                            = ~SuppliesMissing(SchemaOf(update, "id"))

\* update holds a required id and an optional title: {title} is rejected on id
C6_Witness ==
    /\ Returned(last)
    /\ KeysOf(last.result.schemas.update) = {"id", "title"}
    /\ ~SuppliesMissing(SchemaOf(last.result.schemas.update, "id"))
    /\ safeParse(last.result.schemas.update, {"title"}).issues = {"id"}
    /\ safeParse(last.result.schemas.update, {"id"}).success

----------------------------------------------------------------------------
(* C7 as stated: createEntitySchemas raises whenever id is absent from the *)
(* update derivation (skipped for update, listed in omitFromUpdate, or not *)
(* a field of the type).                                                   *)
C7_Original ==
    (/\ IsGeneration(last)
     /\ ~IdInUpdateDerivation(getAllMetadata(store, last.entityClass), last.options))
        => last.result.threw.kind # "none"

(* C7 as amended: the absence of id from the update derivation is no       *)
(* failure.  Such a call raises only when the merged rule set is empty or  *)
(* a supplied transform throws; otherwise it returns the five variants,    *)
(* and the update variant has no id field and optional fields only.        *)
C7_NoIdNoFailure ==
    (/\ IsGeneration(last)
     /\ ~IdInUpdateDerivation(getAllMetadata(store, last.entityClass), last.options))
        => LET merged == getAllMetadata(store, last.entityClass)
           IN  /\ (last.result.threw.kind # "none")
                     = (merged = <<>> \/ ThrowingTransformApplies(merged, last.options))
               /\ last.result.threw.kind = "none" =>
                     /\ DOMAIN last.result.schemas = SchemaVariant
                     /\ "id" \notin KeysOf(last.result.schemas.update)
                     /\ \A i \in DOMAIN last.result.schemas.update :
                           Outer(last.result.schemas.update[i].schema) = "optional"

\* "id" is the only field, listed in omitFromUpdate: update comes back empty
C7_Witness ==
    /\ Returned(last)
    /\ "id" \in NamesOf(last.options.omitFromUpdate)
    /\ KeysOf(getAllMetadata(store, last.entityClass)) = {"id"}
    /\ last.result.schemas.update = <<>>
    /\ KeysOf(last.result.schemas.full) = {"id"}

----------------------------------------------------------------------------
(* C8: when the skip set of id contains update (and no supplied transform  *)
(* throws), createEntitySchemas returns all five variants, the update      *)
(* variant has no id field, and it accepts every input that has no id.     *)
C8_IdSkippedForUpdate ==
    (/\ IsGeneration(last)
     /\ \A f \in AllFields : last.options.transforms[f] # "throws"
     /\ \E i \in DOMAIN getAllMetadata(store, last.entityClass) :
           /\ getAllMetadata(store, last.entityClass)[i].propertyKey = "id"
           /\ "update" \in SkipOf(getAllMetadata(store, last.entityClass)[i]))
        => /\ last.result.threw.kind = "none"
           /\ DOMAIN last.result.schemas = SchemaVariant
           /\ "id" \notin KeysOf(last.result.schemas.update)
           /\ \A input \in InputsWithoutId :
                 safeParse(last.result.schemas.update, input).success

\* TestEntityWithSkip in small: id skips create and update, title is declared required
C8_Witness ==
    /\ Returned(last)
    /\ "id" \in KeysOf(last.result.schemas.full)
    /\ "update" \in SkipOf(getAllMetadata(store, last.entityClass)
          [CHOOSE i \in DOMAIN getAllMetadata(store, last.entityClass) :
              getAllMetadata(store, last.entityClass)[i].propertyKey = "id"])
    /\ KeysOf(last.result.schemas.update) = {"title"}
    /\ ~AcceptsUndefined(SchemaOf(last.result.schemas.full, "title"))
    /\ safeParse(last.result.schemas.update, {}).success

----------------------------------------------------------------------------
(* C9: the patch and query variants hold exactly the fields of the merged  *)
(* rule set not skipped for that variant, each one optional, id included:  *)
(* both accept the empty input.                                            *)
C9_PatchQueryOptional ==
    Returned(last) =>
        LET merged == getAllMetadata(store, last.entityClass)
        IN  \A v \in {"patch", "query"} :
                LET shape == last.result.schemas[v]
                IN  /\ KeysOf(shape) =
                          {merged[i].propertyKey : i \in {j \in DOMAIN merged :
                              v \notin SkipOf(merged[j])}}
                    /\ \A i \in DOMAIN shape : Outer(shape[i].schema) = "optional"
                    /\ safeParse(shape, {}).success

\* id is declared required, title is skipped for query only
C9_Witness ==
    /\ Returned(last)
    /\ KeysOf(last.result.schemas.patch) = {"id", "title"}
    /\ KeysOf(last.result.schemas.query) = {"id"}
    /\ ~AcceptsUndefined(SchemaOf(last.result.schemas.full, "id"))
    /\ safeParse(last.result.schemas.patch, {}).success

----------------------------------------------------------------------------
(* C10: the full variant holds every field of the merged rule set,         *)
(* whatever the skip sets are.                                             *)
C10_FullHasEveryField ==
    Returned(last) =>
        KeysOf(last.result.schemas.full)
            = KeysOf(getAllMetadata(store, last.entityClass))

----------------------------------------------------------------------------
(* C13: in every state that applications of ZodProperty and ZodColumn can  *)
(* reach, no type's own list holds two rules with the same field name.     *)
C13_OwnKeysDistinct ==
    \A c \in Keys :
        \A i \in DOMAIN store[c] : \A j \in DOMAIN store[c] :
            i # j => store[c][i].propertyKey # store[c][j].propertyKey

\* @ZodProperty was refused on a type holding two fields, whose descendant
\* holds the same field name in its own list
C13_Witness ==
    /\ last.op = "ZodProperty"
    /\ last.threw.kind = "Duplicate"
    /\ last.target = "A"
    /\ Len(store["A"]) = 2
    /\ last.propertyKey \in OwnKeys(store, "B")

----------------------------------------------------------------------------
(* C14: the duplicate check looks at the type's own list only.  When field *)
(* y is held by an ancestor of c and not by c itself, has(c, y) is false,  *)
(* a registration of y on c is not refused as a duplicate, a registration  *)
(* that raises nothing puts y at the end of c's own list, and the lists of *)
(* c's ancestors stay as they were.                                        *)
C14_OwnListOnly ==
    [][\A c \in UserClasses : \A y \in AllFields :
          (/\ y \notin OwnKeys(store, c)
           /\ \E i \in DOMAIN AncestorsOf(c) : y \in OwnKeys(store, AncestorsOf(c)[i]))
          => /\ ~hasPropertyMetadata(store, c, y)
             /\ (IsRegistration(last') /\ last'.target = c /\ last'.propertyKey = y)
                 => /\ last'.threw.kind \in {"none", "InvalidSchema"}
                    /\ last'.op = "ZodColumn" => last'.threw.kind = "none"
                    /\ last'.threw.kind = "none"
                          => /\ Len(store'[c]) = Len(store[c]) + 1
                             /\ SubSeq(store'[c], 1, Len(store[c])) = store[c]
                             /\ store'[c][Len(store'[c])].propertyKey = y
                    /\ \A i \in DOMAIN AncestorsOf(c) :
                          store'[AncestorsOf(c)[i]] = store[AncestorsOf(c)[i]]
      ]_vars

\* "id" has just been registered on C, which held "title" only, while the
\* grandparent A holds a different rule for "id"
C14_Witness ==
    /\ IsRegistration(last)
    /\ last.target = "C"
    /\ last.propertyKey = "id"
    /\ last.threw.kind = "none"
    /\ KeysOf(store["C"]) = {"title", "id"}
    /\ "id" \in OwnKeys(store, "A")
    /\ OwnRule(store, "A", "id") # OwnRule(store, "C", "id")

----------------------------------------------------------------------------
(* C11: createEntitySchemas, createZodFromEntity, createCreateSchema and   *)
(* createUpdateSchema raise the error that names the type and return no    *)
(* variant exactly when the type's merged rule set is empty; a type with   *)
(* no rules of its own whose ancestor holds rules does not raise it.       *)
GenerationOps ==
    {"createEntitySchemas", "createZodFromEntity",
     "createCreateSchema", "createUpdateSchema"}

C11_EmptyRaises ==
    last.op \in GenerationOps =>
        LET empty == ChainKeys(store, last.entityClass) = {}
        IN  /\ (last.result.threw.kind = "NoMetadata") = empty
            /\ empty =>
                  /\ last.result.threw = [kind |-> "NoMetadata",
                                          entity |-> last.entityClass]
                  /\ "schemas" \notin DOMAIN last.result
                  /\ "shape" \in DOMAIN last.result => last.result.shape = <<>>

\* createUpdateSchema returned for B, which has no rules of its own, and the
\* only rule of its parent A is skipped for update
C11_Witness ==
    /\ last.op = "createUpdateSchema"
    /\ last.entityClass = "B"
    /\ store["B"] = <<>>
    /\ Len(store["A"]) = 1
    /\ "update" \in SkipOf(store["A"][1])
    /\ last.result.threw.kind = "none"
    /\ last.result.shape = <<>>

----------------------------------------------------------------------------
(* C12: each omission list acts on its own variant only.  In a returned    *)
(* Schema Collection the create variant leaves out the four conventional   *)
(* fields and omitFromCreate, the update variant leaves out omitFromUpdate,*)
(* and nothing else is left out but what the skip sets say; full, patch    *)
(* and query are the variants the same call returns without the two lists, *)
(* so a field of omitFromCreate is in full with the validator it has       *)
(* without the list.                                                       *)
C12_OmitScoped ==
    Returned(last) =>
        LET c     == last.entityClass
            o     == last.options
            s     == last.result.schemas
            plain == createEntitySchemas(store, c, Options(NoList, NoList, o.transforms))
            kept(v, k) == v \notin SkipOf(ChainRule(store, c, k))
        IN  /\ plain.threw.kind = "none" =>
                  \A v \in {"full", "patch", "query"} : s[v] = plain.schemas[v]
            /\ \A k \in ChainKeys(store, c) :
                  /\ \A v \in {"full", "patch", "query"} :
                        (k \in KeysOf(s[v])) = kept(v, k)
                  /\ (k \in KeysOf(s.create)) =
                        (/\ kept("create", k)
                         /\ k \notin ConventionalFields \cup NamesOf(o.omitFromCreate))
                  /\ (k \in KeysOf(s.update)) =
                        (kept("update", k) /\ k \notin NamesOf(o.omitFromUpdate))

\* "title" is in omitFromCreate: it is required in full, optional in update,
\* patch and query, and absent from create, and "id" is still in update
C12_Witness ==
    /\ Returned(last)
    /\ NamesOf(last.options.omitFromCreate) = {"title"}
    /\ "title" \in KeysOf(last.result.schemas.full)
    /\ ~AcceptsUndefined(SchemaOf(last.result.schemas.full, "title"))
    /\ "title" \notin KeysOf(last.result.schemas.create)
    /\ \A v \in {"update", "patch", "query"} :
          /\ "title" \in KeysOf(last.result.schemas[v])
          /\ AcceptsUndefined(SchemaOf(last.result.schemas[v], "title"))
    /\ "id" \in KeysOf(last.result.schemas.update)

----------------------------------------------------------------------------
(* C20: when the transform supplied for a field throws and some variant    *)
(* includes that field, createEntitySchemas raises the transform's error   *)
(* and returns no Schema Collection: the field is neither kept with its    *)
(* untransformed validator nor dropped.                                    *)
C20_TransformErrorPropagates ==
    (/\ IsGeneration(last)
     /\ ChainKeys(store, last.entityClass) # {}
     /\ ThrowingTransformApplies(getAllMetadata(store, last.entityClass), last.options))
    => /\ last.result.threw.kind = "TransformThrew"
       /\ last.options.transforms[last.result.threw.propertyKey] = "throws"
       /\ "schemas" \notin DOMAIN last.result

\* the transform of "title" throws; "title" is skipped for full, so the full
\* variant is built before the error arises in a later variant
C20_Witness ==
    /\ IsGeneration(last)
    /\ last.options.transforms["title"] = "throws"
    /\ "title" \in ChainKeys(store, last.entityClass)
    /\ "full" \in SkipOf(ChainRule(store, last.entityClass, "title"))
    /\ "id" \in ChainKeys(store, last.entityClass)
    /\ last.result.threw = [kind |-> "TransformThrew", propertyKey |-> "title"]

----------------------------------------------------------------------------
(* C15: the store never hands out or keeps a list that the calling code    *)
(* can change: a push on a list obtained from getMetadata, or on a list    *)
(* passed to setMetadata before, leaves what getMetadata returns for every *)
(* type (and so what hasPropertyMetadata and generation observe) as it was.*)
C15_CallerCannotMutate ==
    [][last'.op = "push" =>
          \A c \in Keys : getMetadata(store', c) = getMetadata(store, c)
      ]_vars

----------------------------------------------------------------------------
(* C16: addMetadata is copy-on-write.  After addMetadata(c, item) the list *)
(* stored for c is the previous list followed by item, the lists stored    *)
(* for the other types are as they were, and a list that the calling code  *)
(* obtained before the call has its previous contents and is not the       *)
(* stored list.                                                            *)
C16_CopyOnWrite ==
    [][last'.op = "addMetadata" =>
          /\ store'[last'.target] = Append(store[last'.target], last'.item)
          /\ \A k \in Keys \ {last'.target} : store'[k] = store[k]
          /\ held' = held
          /\ Caller \notin GroupOf(arrays', last'.target)
          /\ \A k \in GroupOf(arrays, Caller) \ {last'.target} :
                k \in GroupOf(arrays', Caller)
      ]_vars

\* the calling code holds the list it got from getMetadata for the type, with a
\* rule in it, and a rule has just been added to the type
C16_Witness ==
    /\ last.op = "addMetadata"
    /\ last.shared
    /\ held.has
    /\ held.items # <<>>
    /\ store[last.target] = Append(held.items, last.item)
    /\ Caller \notin GroupOf(arrays, last.target)

----------------------------------------------------------------------------
(* C17: schema generation is pure.  A call of createEntitySchemas, whether *)
(* it returns or raises, leaves every stored list (and every array handed  *)
(* out) as it was, and it returns what an earlier call for the same type   *)
(* and options returned on the same store contents.                        *)
C17_GenerationPure ==
    [][IsGeneration(last') =>
          /\ store' = store
          /\ arrays' = arrays
          /\ held' = held
          /\ \A i \in DOMAIN history :
                (/\ history[i].entityClass = last'.entityClass
                 /\ history[i].options = last'.options
                 /\ history[i].seen = store)
                => history[i].result = last'.result
      ]_vars

\* two calls in a row for the child, which has a rule of its own and inherits
\* one, returned the same Schema Collection
C17_Witness ==
    /\ Returned(last)
    /\ Len(history) = 2
    /\ history[1].seen = store
    /\ history[2].seen = store
    /\ history[1].result = history[2].result
    /\ history[1].result = last.result
    /\ store["A"] # <<>>
    /\ store["B"] # <<>>

----------------------------------------------------------------------------
(* C18: nothing is cached between calls.  What a call of                   *)
(* createEntitySchemas returns or raises is derived from the store         *)
(* contents at the time of that call, whatever earlier calls returned: it  *)
(* raises the no-rules error exactly when the merged rule set is empty     *)
(* now, and the fields of the returned query variant are the fields that   *)
(* the lists of the type and its ancestors hold now.                       *)
C18_NothingCached ==
    IsGeneration(last) =>
        /\ last.result = createEntitySchemas(store, last.entityClass, last.options)
        /\ (last.result.threw.kind = "NoMetadata")
              = (ChainKeys(store, last.entityClass) = {})
        /\ Returned(last) =>
              KeysOf(last.result.schemas.query)
                 = {k \in ChainKeys(store, last.entityClass) :
                       "query" \notin SkipOf(ChainRule(store, last.entityClass, k))}

\* the child was generated, a rule was added to its parent, and the child was
\* generated again: the second Schema Collection differs from the first
C18_Witness ==
    /\ Returned(last)
    /\ Len(history) = 2
    /\ history[1].result = last.result
    /\ history[2].entityClass = last.entityClass
    /\ history[2].options = last.options
    /\ history[2].result.threw.kind = "none"
    /\ history[2].result # last.result
    /\ history[2].seen["B"] = store["B"]
    /\ Len(store["A"]) = Len(history[2].seen["A"]) + 1

----------------------------------------------------------------------------
(* Registration by several threads *)

Count(seq, x) == Cardinality({i \in DOMAIN seq : seq[i] = x})

\* no thread is inside addMetadata
AllFinished == \A t \in Threads : threads[t].pc = "idle"

\* each type's list holds the rule of each thread once per add that the thread
\* completed on that type: no add is lost and no rule is in another type's list
NoLostUpdate ==
    \A c \in Keys : \A t \in Threads :
        Count(store[c], ThreadItem(t)) = Count(threads[t].added, c)

----------------------------------------------------------------------------
(* C23: order is preserved.  The merged rule set of a type lists the       *)
(* fields in the order of the walk: a field found in a nearer list comes   *)
(* before a field found in a farther one, and two fields found in the same *)
(* list come in that list's registration order; the fields of every        *)
(* returned variant come in the merged order.                              *)
FirstIndex(seq, k) ==
    CHOOSE i \in DOMAIN seq :
        /\ seq[i].propertyKey = k
        /\ \A j \in DOMAIN seq : seq[j].propertyKey = k => i <= j

\* the place in c's chain of the nearest list that holds field k
NearestHolder(st, c, k) ==
    CHOOSE a \in DOMAIN ChainOf(c) :
        /\ k \in OwnKeys(st, ChainOf(c)[a])
        /\ \A b \in DOMAIN ChainOf(c) : k \in OwnKeys(st, ChainOf(c)[b]) => a <= b

WalkBefore(st, c, k1, k2) ==
    LET a1 == NearestHolder(st, c, k1)
        a2 == NearestHolder(st, c, k2)
    IN  \/ a1 < a2
        \/ /\ a1 = a2
           /\ FirstIndex(st[ChainOf(c)[a1]], k1) < FirstIndex(st[ChainOf(c)[a1]], k2)

----------------------------------------------------------------------------
----------------------------------------------------------------------------
(* C26: for all store contents, own lists that hold a field name more than *)
(* once included, the merged rule set of a type and every returned variant *)
(* have pairwise-distinct field names, and the rule kept for a field is    *)
(* its first occurrence in walk order: the first one in the nearest list   *)
(* that holds the field.                                                   *)
C26_MergedDistinct ==
    /\ \A c \in UserClasses :
          LET merged == getAllMetadata(store, c)
          IN  \A i \in DOMAIN merged :
                 /\ \A j \in DOMAIN merged :
                       i # j => merged[i].propertyKey # merged[j].propertyKey
                 /\ LET k    == merged[i].propertyKey
                        list == store[ChainOf(c)[NearestHolder(store, c, k)]]
                    IN  merged[i] = list[FirstIndex(list, k)]
    /\ Returned(last) =>
          \A v \in SchemaVariant :
              LET shape == last.result.schemas[v]
              IN  \A i \in DOMAIN shape : \A j \in DOMAIN shape :
                     i # j => shape[i].propertyKey # shape[j].propertyKey

\* B's own list holds "id" twice with different rules and A's list holds "id"
\* too: the merged rule set of B has the first of B's two rules only
C26_Witness ==
    /\ Returned(last)
    /\ last.entityClass = "B"
    /\ Len(store["B"]) = 2
    /\ store["B"][1].propertyKey = "id"
    /\ store["B"][2].propertyKey = "id"
    /\ store["B"][1] # store["B"][2]
    /\ "id" \in OwnKeys(store, "A")
    /\ getAllMetadata(store, "B") = <<store["B"][1]>>
    /\ Len(last.result.schemas.full) = 1

----------------------------------------------------------------------------
(* C22: the inheritance walk does not go past the user-defined types.      *)
(* Whatever is stored under Object, Function or an object of the chain     *)
(* above the last user-defined class, every rule of the merged rule set of *)
(* a user-defined class is the rule of a user-defined class of its chain,  *)
(* and a returned variant holds fields of those classes only.              *)
C22_WalkStopsAtUserTypes ==
    /\ \A c \in UserClasses :
          LET merged == getAllMetadata(store, c)
          IN  \A i \in DOMAIN merged :
                 /\ merged[i].propertyKey \in ChainKeys(store, c)
                 /\ merged[i] = ChainRule(store, c, merged[i].propertyKey)
    /\ Returned(last) =>
          \A v \in SchemaVariant :
              KeysOf(last.result.schemas[v]) \subseteq ChainKeys(store, last.entityClass)

----------------------------------------------------------------------------
(* Coercion by the column options.  A validator is optional, nullable or   *)
(* has a default when its outermost wrapper is that one.                   *)

NullableWanted(rule) == rule.columnOptions.defined /\ rule.columnOptions.nullable

DefaultWanted(rule) == rule.columnOptions.defined /\ rule.columnOptions.hasDefault

(* C24: a transform supplied for a field is applied first and the coercion *)
(* is decided on the transformed validator: when the transformed validator *)
(* is optional or nullable no nullable wrapper is added, and when it has a *)
(* default no second default is added.                                     *)
C24_CoercionAfterTransform ==
    Returned(last) =>
        LET c    == last.entityClass
            full == last.result.schemas.full
        IN  \A i \in DOMAIN full :
               LET k     == full[i].propertyKey
                   rule  == ChainRule(store, c, k)
                   kind  == last.options.transforms[k]
                   t     == ApplyTransform(kind, rule.zodSchema)
                   final == full[i].schema
               IN  kind # "absent" =>
                      /\ (NullableWanted(rule) /\ Outer(t) \in {"optional", "nullable"})
                            => final \in {t, Wrap(t, "default")}
                      /\ (DefaultWanted(rule) /\ Outer(t) = "default")
                            => final \in {t, Wrap(t, "nullable")}

(* C25: for a field with no transform, the validator of the full and       *)
(* create variants is the declared one, wrapped as nullable exactly when   *)
(* the column options say nullable and the declared validator is neither   *)
(* optional nor nullable, and then given a default exactly when the column *)
(* options hold a default and the declared validator has none; patch and   *)
(* query hold that validator made optional.  A field with no column        *)
(* options keeps the declared validator.                                   *)
Coerced(rule) ==
    LET d  == rule.zodSchema
        s1 == IF NullableWanted(rule) /\ Outer(d) \notin {"optional", "nullable"}
              THEN Wrap(d, "nullable") ELSE d
    IN  IF DefaultWanted(rule) /\ Outer(d) # "default" THEN Wrap(s1, "default") ELSE s1

C25_HintCoercion ==
    Returned(last) =>
        LET c == last.entityClass IN
        \A v \in {"full", "create", "patch", "query"} :
            LET shape == last.result.schemas[v]
            IN  \A i \in DOMAIN shape :
                   LET k    == shape[i].propertyKey
                       rule == ChainRule(store, c, k)
                   IN  last.options.transforms[k] = "absent" =>
                          /\ shape[i].schema =
                                IF v \in {"patch", "query"}
                                THEN Wrap(Coerced(rule), "optional")
                                ELSE Coerced(rule)
                          /\ ~rule.columnOptions.defined =>
                                Coerced(rule) = rule.zodSchema

\* a field declared nullable, with column options that say nullable and hold a
\* default: the default is attached and no second nullable wrapper is
C25_Witness ==
    /\ Returned(last)
    /\ last.options = DefaultOptions
    /\ LET rule == ChainRule(store, last.entityClass, "title")
       IN  /\ rule.zodSchema = Z("string", <<"nullable">>)
           /\ NullableWanted(rule)
           /\ DefaultWanted(rule)
    /\ SchemaOf(last.result.schemas.full, "title") = Z("string", <<"nullable", "default">>)
    /\ SchemaOf(last.result.schemas.create, "title")
          = Z("string", <<"nullable", "default">>)

----------------------------------------------------------------------------
(* C21 as stated: every value that the create variant accepts, parsed by   *)
(* create and merged with valid values for id, createdAt, updatedAt and    *)
(* deletedAt, is accepted by the full variant.                             *)
RoundTrips(schemas) ==
    \A v \in SUBSET AllFields :
        Issues(schemas.create, v) = {}
            => Issues(schemas.full, parse(schemas.create, v) \cup ConventionalFields) = {}

----------------------------------------------------------------------------
(* C28: loading the store module when a store exists under the global key  *)
(* reuses that store: no load creates a second store or clears entries,    *)
(* every loaded copy is bound to the store under the global key, and       *)
(* getMetadata, hasPropertyMetadata and generation through any loaded copy *)
(* see the rules registered through every copy.                            *)
C28_StoreProcessWide ==
    /\ Len(modules.stores) <= 1
    /\ \A copy \in Copies :
          Loaded(copy)
              => /\ modules.metadataStore[copy] = modules.globalStore
                 /\ \A k \in Keys : getMetadata(StoreOf(copy), k) = modules.added[k]
    /\ last.op = "getMetadataVia" => last.result = modules.added[last.target]
    /\ last.op = "hasPropertyMetadataVia"
          => last.result = (\E i \in DOMAIN modules.added[last.target] :
                                modules.added[last.target][i].propertyKey = last.propertyKey)
    /\ last.op = "createEntitySchemasVia"
          => last.result = createEntitySchemas(modules.added, last.entityClass,
                                               DefaultOptions)

\* rules were registered through copy m1 alone, a module load found rules in
\* the store, and a generation through copy m2 returns schemas
C28_Witness ==
    /\ modules.via = {"m1"}
    /\ modules.kept
    /\ last.op = "createEntitySchemasVia"
    /\ last.copy = "m2"
    /\ last.result.threw.kind = "none"
    /\ KeysOf(last.result.schemas.full) # {}

----------------------------------------------------------------------------
\* a file event has not been followed by a run of the debounced function
Unserved(w) == w.burst # "none"

(* C29 as stated, its last part: every file event is eventually followed   *)
(* by a regeneration.                                                      *)
C29_Original == Unserved(watch) ~> ~Unserved(watch)

(* C29: every file event cancels the pending timer and starts one of 300   *)
(* ms; the debounced function runs only after 300 ms without events, once  *)
(* for all the events since its previous run, and starts a regeneration    *)
(* with the reload of the configuration; only it starts a regeneration;    *)
(* and as long as a file event has not been followed by a regeneration,    *)
(* the timer is pending and due 300 ms after the latest event.             *)
C29_Debounce ==
    [][ /\ last'.op = "event"
            => watch'.timeout = Timeout(Wait) /\ watch'.quiet = 0 /\ Unserved(watch')
        /\ last'.op = "later"
            => /\ watch.quiet = Wait
               /\ Unserved(watch)
               /\ ~Unserved(watch')
               /\ watch'.timeout = NoTimeout
               /\ watch'.jobs = Append(watch.jobs, Job("regeneration", "loadConfig"))
        /\ Len(watch'.jobs) > Len(watch.jobs) => last'.op = "later"
        /\ (last'.op = "await" /\ last'.kind = "regeneration" /\ last'.at = "entities")
            => \E i \in DOMAIN watch.jobs :
                  /\ watch.jobs[i] = [watch'.jobs[i] EXCEPT !.at = "loadConfig"]
                  /\ watch'.jobs[i].at = "entities"
        /\ Unserved(watch')
            => /\ watch'.timeout.pending
               /\ watch'.timeout.left + watch'.quiet = Wait
      ]_vars

\* several file events came less than 300 ms apart, then 300 ms passed and
\* the debounced function has just run once: a regeneration waits in loadConfig
C29_Witness ==
    /\ last.op = "later"
    /\ last.burst = "many"
    /\ last.quiet = Wait
    /\ ~Unserved(watch)
    /\ watch.timeout = NoTimeout
    /\ watch.jobs[Len(watch.jobs)] = Job("regeneration", "loadConfig")

----------------------------------------------------------------------------
(* C30: at most one generation, the initial one or a regeneration, is in   *)
(* progress at any time: the debounced function starts a regeneration only *)
(* when none is running, and the output file is written only when no other *)
(* generation is running.                                                  *)
C30_OneRegenerationAtATime ==
    /\ Len(watch.jobs) <= 1
    /\ last.op = "later" => last.running = 0
    /\ last.op = "writeFile" => last.running = 0 /\ ~last.stale

=============================================================================
